---- MODULE Spec2Model ----
(***************************************************************************)
(* A model of kerb_sts/auth.py: the three Authenticator strategies        *)
(* (KerberosAuthenticator, NtlmAuthenticator, KeytabAuthenticator), the   *)
(* external ticket tools their constructors run, and get_auth_handler.    *)
(*                                                                         *)
(* A Python string is a sequence of symbols; a symbol is one character    *)
(* ("a", " ", "@") or an opaque literal chunk ("kinit", "-kt").  Python's *)
(* None is the reserved one-symbol sequence <<"<None>">>, which is no     *)
(* string any input contains.                                              *)
(*                                                                         *)
(* Several constructions may be in progress at once (one per thread of    *)
(* the calling process); each runs its own __init__ step by step and they *)
(* share os.environ and the credential-cache files.                       *)
(***************************************************************************)
EXTENDS Integers, Sequences, FiniteSets, TLC

\* Number of constructions (one per calling thread) the model follows.
MaxCtors == 2
\* Number of get_auth_handler calls the model follows.
MaxHandlers == 2

Ctors == 1..MaxCtors

None == <<"<None>">>

\* ---------------------------------------------------------------- inputs
\* Inputs of the interleaved specification Spec.
KerberosUsernames == {None, <<>>, <<"a">>}
Passwords         == {None, <<"p">>}
Domains           == {<<"D">>}
Hostnames         == {<<"h">>}
NtlmUsernames     == {<<"b">>}
NtlmPasswords     == {<<"p">>}
NtlmDomains       == {<<"D">>}
KeytabUsernames   == {<<"a">>, <<"b">>}
Keytabs           == {<<"k">>}
KeytabDomains     == {<<"D">>}
Sessions          == {"s1", "s2"}
Statuses          == {"exit0", "exit1"}

\* Inputs of SpecSolo, which follows one construction over richer strings
\* and process statuses.
SoloUsernames     == {None, <<>>, <<"a">>, <<"a", " ", "b">>}
SoloPasswords     == {None, <<"p">>}
SoloDomains       == {None, <<>>, <<"D">>}
SoloHostnames     == {None, <<>>, <<"h">>}

\* Statuses of an external process: still running, exited with status 0,
\* exited with a non-zero status, or killed by a signal.
Terminated == {"exit0", "exit1", "signal"}

VARIABLES
    os_name,    \* os.name
    environ,    \* os.environ['KRB5CCNAME'], None when unset
    ccache,     \* credential-cache file -> principal whose ticket it holds
    pc,         \* where each construction stands
    self,       \* the attributes __init__ has stored on the object
    args,       \* the arguments passed to the ticket helper
    procs,      \* the external processes each construction has spawned
    log,        \* the records each construction has logged
    raised,     \* the exception a construction raised to its caller
    handlers    \* the handlers get_auth_handler has returned, per strategy

vars == <<os_name, environ, ccache, pc, self, args, procs, log, raised, handlers>>

\* ------------------------------------------------------- Python helpers
\* Truth value of a Python object (None and '' are false).
Truthy(x) == x # None /\ x # <<>>

\* '{}'.format(x)
Str(x) == IF x = None THEN <<"N", "o", "n", "e">> ELSE x

\* '{}@{}'.format(username, domain)
principal_of(username, domain) == Str(username) \o <<"@">> \o Str(domain)

isspace(ch) == ch \in {" ", "\t", "\n"}

\* pexpect's splitting of a command string into its argument list.
RECURSIVE split_scan(_, _, _, _, _)
split_scan(s, i, state, arg, arg_list) ==
    IF i > Len(s)
    THEN IF arg # <<>> THEN Append(arg_list, arg) ELSE arg_list
    ELSE LET ch == s[i] IN
         CASE state \in {"basic", "whitespace"} ->
                 IF ch = "\\" THEN split_scan(s, i + 1, "esc", arg, arg_list)
                 ELSE IF ch = "'" THEN split_scan(s, i + 1, "singlequote", arg, arg_list)
                 ELSE IF ch = "\"" THEN split_scan(s, i + 1, "doublequote", arg, arg_list)
                 ELSE IF isspace(ch)
                      THEN IF state = "whitespace"
                           THEN split_scan(s, i + 1, state, arg, arg_list)
                           ELSE split_scan(s, i + 1, "whitespace", <<>>, Append(arg_list, arg))
                      ELSE split_scan(s, i + 1, "basic", Append(arg, ch), arg_list)
           [] state = "esc" -> split_scan(s, i + 1, "basic", Append(arg, ch), arg_list)
           [] state = "singlequote" ->
                 IF ch = "'" THEN split_scan(s, i + 1, "basic", arg, arg_list)
                 ELSE split_scan(s, i + 1, state, Append(arg, ch), arg_list)
           [] state = "doublequote" ->
                 IF ch = "\"" THEN split_scan(s, i + 1, "basic", arg, arg_list)
                 ELSE split_scan(s, i + 1, state, Append(arg, ch), arg_list)

split_command_line(command_line) == split_scan(command_line, 1, "basic", <<>>, <<>>)

\* 'kinit {}'.format(principal)
kinit_command(principal) == <<"kinit", " ">> \o principal

\* ------------------------------------------------------------ processes
DefaultCache == <<"<default ccache>">>

\* os.path.join(os.getcwd(), 'credentials_cache')
credentials_cache == <<"<cwd>", "/", "credentials_cache">>

CachePaths == {DefaultCache, credentials_cache}

\* The cache a child process uses when it is given no -c option: the one
\* KRB5CCNAME names in the environment it inherits, else the default.
InheritedCache == IF environ = None THEN DefaultCache ELSE environ

\* The identity `kinit` without arguments asks a ticket for.
LoginPrincipal == <<"<login>">>

\* An invocation of an external tool.  status is what the operating system
\* knows of the process ("notfound": the executable could not be started);
\* exitstatus is what the construction has collected by waiting for it.
Process(tool, argv, cc, princ) ==
    [tool |-> tool, args |-> argv, stdin |-> <<>>, ccname |-> cc,
     principal |-> princ, status |-> "running", exitstatus |-> "unset"]

NotFound(p) == [p EXCEPT !.status = "notfound"]

Last(s) == s[Len(s)]

Current(c) == Last(procs[c])

\* The processes of construction c once it has waited for the current one.
Collected(c) == [procs[c] EXCEPT ![Len(procs[c])].exitstatus = Current(c).status]

Spawn(c, p) == procs' = [procs EXCEPT ![c] = Append(@, p)]

Wait(c) == procs' = [procs EXCEPT ![c] = Collected(c)]

\* ---------------------------------------------------- logs, exceptions
Message(fmt, fargs) == [fmt |-> fmt, args |-> fargs]

NoException == [type |-> "none", msg |-> Message("", <<>>)]

Exc(type, msg) == [type |-> type, msg |-> msg]

Log(c, level, msg) == log' = [log EXCEPT ![c] = Append(@, [level |-> level, msg |-> msg])]

Raise(c, e) == /\ pc' = [pc EXCEPT ![c] = "raised"]
               /\ raised' = [raised EXCEPT ![c] = e]

Return(c) == /\ pc' = [pc EXCEPT ![c] = "returned"]
             /\ UNCHANGED raised

Goto(c, l) == /\ pc' = [pc EXCEPT ![c] = l]
              /\ UNCHANGED raised

\* Constructions are numbered in the order they start.
CanStart(c) == /\ pc[c] = "idle"
               /\ \A d \in Ctors : d < c => pc[d] # "idle"

Init ==
    /\ os_name \in {"posix", "nt"}
    /\ environ = None
    /\ ccache = [p \in CachePaths |-> None]
    /\ pc = [c \in Ctors |-> "idle"]
    /\ self = [c \in Ctors |-> [cls |-> "none"]]
    /\ args = [c \in Ctors |-> [none |-> TRUE]]
    /\ procs = [c \in Ctors |-> <<>>]
    /\ log = [c \in Ctors |-> <<>>]
    /\ raised = [c \in Ctors |-> NoException]
    /\ handlers = [c \in Ctors |-> <<>>]

\* ------------------------------------------------ KerberosAuthenticator
KerberosAuthenticator_init(c, kerb_hostname, username, password, domain) ==
    /\ CanStart(c)
    /\ self' = [self EXCEPT ![c] =
                  [cls |-> "kerberos",
                   kerb_hostname |-> IF Truthy(kerb_hostname) THEN kerb_hostname ELSE None]]
    /\ IF Truthy(username)
       THEN /\ args' = [args EXCEPT ![c] =
                          [username |-> username, password |-> password, domain |-> domain]]
            /\ Goto(c, "user_spawn")
       ELSE /\ UNCHANGED args
            /\ Goto(c, "klist_spawn")
    /\ UNCHANGED <<os_name, environ, ccache, procs, log, handlers>>

user_error_log == Message("failed to generate a kerberos ticket for principal {}", <<>>)

\* Faulty variant: the message is left unformatted, as the log record is.
user_error_unformatted(principal) == user_error_log

user_error(principal) ==
    Message("failed to generate a kerberos ticket for principal {}", <<principal>>)

\* except Exception as ex: logging.error(...); raise ex
user_except(c, ex) ==
    /\ Log(c, "error", user_error_log)
    /\ Raise(c, ex)

generate_kerberos_ticket_for_user_spawn(c) ==
    /\ pc[c] = "user_spawn"
    /\ LET principal == principal_of(args[c].username, args[c].domain)
           argv == split_command_line(kinit_command(principal))
           kinit == Process(argv[1], Tail(argv), InheritedCache, principal)
       IN \/ /\ Spawn(c, kinit)
             /\ Goto(c, "user_sendline")
             /\ UNCHANGED log
          \/ /\ Spawn(c, NotFound(kinit))
             /\ user_except(c, Exc("ExceptionPexpect", Message("The command was not found or was not executable", <<>>)))
    /\ UNCHANGED <<os_name, environ, ccache, self, args, handlers>>

generate_kerberos_ticket_for_user_sendline(c) ==
    /\ pc[c] = "user_sendline"
    /\ IF args[c].password = None
       THEN /\ user_except(c, Exc("AttributeError", Message("'NoneType' object has no attribute 'encode'", <<>>)))
            /\ UNCHANGED procs
       ELSE /\ procs' = [procs EXCEPT ![c][Len(procs[c])].stdin =
                           Append(@, args[c].password \o <<"\n">>)]
            /\ Goto(c, "user_expect")
            /\ UNCHANGED log
    /\ UNCHANGED <<os_name, environ, ccache, self, args, handlers>>

\* Faulty variant: the exit status is not looked at.
generate_kerberos_ticket_for_user_expect_any_status(c) ==
    /\ pc[c] = "user_expect"
    /\ IF Current(c).status \in Terminated
       THEN /\ Wait(c)
            /\ Return(c)
            /\ UNCHANGED log
       ELSE /\ user_except(c, Exc("TIMEOUT", Message("Timeout exceeded.", <<>>)))
            /\ UNCHANGED procs
    /\ UNCHANGED <<os_name, environ, ccache, self, args, handlers>>

\* kinit.expect(pexpect.EOF) returns when the process has ended and raises
\* TIMEOUT when pexpect's timeout passes first; kinit.close() then collects
\* the exit status, which is None when a signal ended the process.
generate_kerberos_ticket_for_user_expect(c) ==
    /\ pc[c] = "user_expect"
    /\ IF Current(c).status \in Terminated
       THEN /\ Wait(c)
            /\ IF Current(c).status # "exit0"
               THEN user_except(c, Exc("Exception", user_error(Current(c).principal)))
               ELSE Return(c) /\ UNCHANGED log
       ELSE /\ user_except(c, Exc("TIMEOUT", Message("Timeout exceeded.", <<>>)))
            /\ UNCHANGED procs
    /\ UNCHANGED <<os_name, environ, ccache, self, args, handlers>>

generate_kerberos_ticket_klist(c) ==
    /\ pc[c] = "klist_spawn"
    /\ LET klist == Process(<<"klist">>, << <<"-s">> >>, InheritedCache, None)
       IN \/ /\ Spawn(c, klist)
             /\ Goto(c, "klist_wait")
          \/ /\ Spawn(c, NotFound(klist))
             /\ Raise(c, Exc("OSError", Message("klist", <<>>)))
    /\ UNCHANGED <<os_name, environ, ccache, self, args, log, handlers>>

\* Faulty variant: kinit is run whatever the check said.
generate_kerberos_ticket_klist_wait_always_kinit(c) ==
    /\ pc[c] = "klist_wait"
    /\ Current(c).status \in Terminated
    /\ Log(c, "info", Message("no kerberos ticket found. running kinit", <<>>))
    /\ procs' = [procs EXCEPT ![c] =
                   Append(Collected(c), Process(<<"kinit">>, <<>>, InheritedCache, LoginPrincipal))]
    /\ Goto(c, "kinit_wait")
    /\ UNCHANGED <<os_name, environ, ccache, self, args, handlers>>

generate_kerberos_ticket_klist_wait(c) ==
    /\ pc[c] = "klist_wait"
    /\ Current(c).status \in Terminated
    /\ IF Current(c).status = "exit0"
       THEN Wait(c) /\ Return(c) /\ UNCHANGED log
       ELSE /\ Log(c, "info", Message("no kerberos ticket found. running kinit", <<>>))
            /\ LET kinit == Process(<<"kinit">>, <<>>, InheritedCache, LoginPrincipal)
               IN \/ /\ procs' = [procs EXCEPT ![c] = Append(Collected(c), kinit)]
                     /\ Goto(c, "kinit_wait")
                  \/ /\ procs' = [procs EXCEPT ![c] = Append(Collected(c), NotFound(kinit))]
                     /\ Raise(c, Exc("OSError", Message("kinit", <<>>)))
    /\ UNCHANGED <<os_name, environ, ccache, self, args, handlers>>

\* Faulty variant: the failure of kinit is logged and not raised.
generate_kerberos_ticket_kinit_wait_swallow(c) ==
    /\ pc[c] = "kinit_wait"
    /\ Current(c).status \in Terminated
    /\ Wait(c)
    /\ Return(c)
    /\ IF Current(c).status = "exit0"
       THEN UNCHANGED log
       ELSE Log(c, "error", Message("failed to generate a kerberos ticket", <<>>))
    /\ UNCHANGED <<os_name, environ, ccache, self, args, handlers>>

generate_kerberos_ticket_kinit_wait(c) ==
    /\ pc[c] = "kinit_wait"
    /\ Current(c).status \in Terminated
    /\ Wait(c)
    /\ IF Current(c).status = "exit0"
       THEN Return(c) /\ UNCHANGED log
       ELSE /\ Log(c, "error", Message("failed to generate a kerberos ticket", <<>>))
            /\ Raise(c, Exc("CalledProcessError", Message("kinit", <<>>)))
    /\ UNCHANGED <<os_name, environ, ccache, self, args, handlers>>

\* ---------------------------------------------------- NtlmAuthenticator
NtlmAuthenticator_init(c, username, password, domain) ==
    /\ CanStart(c)
    /\ self' = [self EXCEPT ![c] =
                  [cls |-> "ntlm", username |-> username, password |-> password,
                   domain |-> domain]]
    /\ Return(c)
    /\ UNCHANGED <<os_name, environ, ccache, args, procs, log, handlers>>

\* -------------------------------------------------- KeytabAuthenticator
\* Faulty variant: the platform is not checked.
KeytabAuthenticator_init_any_platform(c, username, keytab, domain) ==
    /\ CanStart(c)
    /\ self' = [self EXCEPT ![c] =
                  [cls |-> "keytab", username |-> username, keytab |-> keytab,
                   domain |-> domain]]
    /\ Goto(c, "keytab_setenv")
    /\ UNCHANGED <<os_name, environ, ccache, args, procs, log, handlers>>

KeytabAuthenticator_init(c, username, keytab, domain) ==
    /\ CanStart(c)
    /\ self' = [self EXCEPT ![c] =
                  [cls |-> "keytab", username |-> username, keytab |-> keytab,
                   domain |-> domain]]
    /\ IF os_name = "nt"
       THEN Raise(c, Exc("Exception", Message("keytab is not supported on Windows!", <<>>)))
       ELSE Goto(c, "keytab_setenv")
    /\ UNCHANGED <<os_name, environ, ccache, args, procs, log, handlers>>

\* Faulty variant: the cache path is computed and KRB5CCNAME is not set.
KeytabAuthenticator_setenv_skipped(c) ==
    /\ pc[c] = "keytab_setenv"
    /\ Goto(c, "keytab_kinit")
    /\ UNCHANGED <<os_name, environ, ccache, self, args, procs, log, handlers>>

KeytabAuthenticator_setenv(c) ==
    /\ pc[c] = "keytab_setenv"
    /\ environ' = credentials_cache
    /\ Goto(c, "keytab_kinit")
    /\ UNCHANGED <<os_name, ccache, self, args, procs, log, handlers>>

KeytabAuthenticator_kinit(c) ==
    /\ pc[c] = "keytab_kinit"
    /\ LET principal == principal_of(self[c].username, self[c].domain)
           kinit == Process(<<"kinit">>,
                            << <<"-c">>, credentials_cache, <<"-kt">>, self[c].keytab, principal >>,
                            credentials_cache, principal)
       IN \/ /\ Spawn(c, kinit)
             /\ Goto(c, "keytab_wait")
          \/ /\ Spawn(c, NotFound(kinit))
             /\ Raise(c, Exc("OSError", Message("kinit", <<>>)))
    /\ UNCHANGED <<os_name, environ, ccache, self, args, log, handlers>>

\* Faulty variant: kinit is given up on while it is still running.
KeytabAuthenticator_wait_with_timeout(c) ==
    /\ pc[c] = "keytab_wait"
    /\ IF Current(c).status \in Terminated
       THEN /\ Wait(c)
            /\ IF Current(c).status = "exit0"
               THEN Return(c)
               ELSE Raise(c, Exc("Exception", Message("could not generate a valid ticket for the given keytab", <<>>)))
       ELSE /\ Raise(c, Exc("TimeoutExpired", Message("kinit", <<>>)))
            /\ UNCHANGED procs
    /\ UNCHANGED <<os_name, environ, ccache, self, args, log, handlers>>

KeytabAuthenticator_wait(c) ==
    /\ pc[c] = "keytab_wait"
    /\ Current(c).status \in Terminated
    /\ Wait(c)
    /\ IF Current(c).status = "exit0"
       THEN Return(c)
       ELSE Raise(c, Exc("Exception", Message("could not generate a valid ticket for the given keytab", <<>>)))
    /\ UNCHANGED <<os_name, environ, ccache, self, args, log, handlers>>

\* ----------------------------------------------------- get_auth_handler
RECURSIVE HandlerCount(_)
HandlerCount(C) ==
    IF C = {} THEN 0
    ELSE LET c == CHOOSE x \in C : TRUE IN Len(handlers[c]) + HandlerCount(C \ {c})

\* Faulty variant: handing out a handler checks for a ticket again.
NewHandler_recheck(c, h) ==
    /\ pc[c] = "returned"
    /\ HandlerCount(Ctors) < MaxHandlers
    /\ handlers' = [handlers EXCEPT ![c] = Append(@, [id |-> <<c, Len(@) + 1>>] @@ h)]
    /\ Spawn(c, Process(<<"klist">>, << <<"-s">> >>, InheritedCache, None))
    /\ UNCHANGED <<os_name, environ, ccache, pc, self, args, log, raised>>

NewHandler(c, h) ==
    /\ pc[c] = "returned"
    /\ HandlerCount(Ctors) < MaxHandlers
    /\ handlers' = [handlers EXCEPT ![c] = Append(@, [id |-> <<c, Len(@) + 1>>] @@ h)]
    /\ UNCHANGED <<os_name, environ, ccache, pc, self, args, procs, log, raised>>

KerberosAuthenticator_get_auth_handler(c, session) ==
    /\ self[c].cls = "kerberos"
    /\ NewHandler(c, [type |-> "HTTPKerberosAuth", mutual_authentication |-> "OPTIONAL",
                      hostname_override |-> self[c].kerb_hostname])

NtlmAuthenticator_get_auth_handler(c, session) ==
    /\ self[c].cls = "ntlm"
    /\ NewHandler(c, [type |-> "HttpNtlmAuth",
                      username |-> Str(self[c].domain) \o <<"\\">> \o Str(self[c].username),
                      password |-> self[c].password,
                      session |-> session])

KeytabAuthenticator_get_auth_handler(c, session) ==
    /\ self[c].cls = "keytab"
    /\ NewHandler(c, [type |-> "HTTPKerberosAuth", mutual_authentication |-> "OPTIONAL",
                      hostname_override |-> None])

\* ----------------------------------------------------- the environment
\* An external tool ends.  A kinit that exits with status 0 has written the
\* ticket of its principal to its credential cache, replacing what was there.
process_exit(c, status) ==
    /\ procs[c] # <<>>
    /\ Current(c).status = "running"
    /\ procs' = [procs EXCEPT ![c][Len(procs[c])].status = status]
    /\ ccache' = IF Current(c).tool = <<"kinit">> /\ status = "exit0"
                 THEN [ccache EXCEPT ![Current(c).ccname] = Current(c).principal]
                 ELSE ccache
    /\ UNCHANGED <<os_name, environ, pc, self, args, log, raised, handlers>>

NextFor(C, H, U, P, D, T) ==
    \/ \E c \in C, h \in H, u \in U, p \in P, d \in D :
          KerberosAuthenticator_init(c, h, u, p, d)
    \/ \E c \in C : generate_kerberos_ticket_for_user_spawn(c)
    \/ \E c \in C : generate_kerberos_ticket_for_user_sendline(c)
    \/ \E c \in C : generate_kerberos_ticket_for_user_expect(c)
    \/ \E c \in C : generate_kerberos_ticket_klist(c)
    \/ \E c \in C : generate_kerberos_ticket_klist_wait(c)
    \/ \E c \in C : generate_kerberos_ticket_kinit_wait(c)
    \/ \E c \in C, u \in NtlmUsernames, p \in NtlmPasswords, d \in NtlmDomains :
          NtlmAuthenticator_init(c, u, p, d)
    \/ \E c \in C, u \in KeytabUsernames, k \in Keytabs, d \in KeytabDomains :
          KeytabAuthenticator_init(c, u, k, d)
    \/ \E c \in C : KeytabAuthenticator_setenv(c)
    \/ \E c \in C : KeytabAuthenticator_kinit(c)
    \/ \E c \in C : KeytabAuthenticator_wait(c)
    \/ \E c \in C, s \in Sessions : KerberosAuthenticator_get_auth_handler(c, s)
    \/ \E c \in C, s \in Sessions : NtlmAuthenticator_get_auth_handler(c, s)
    \/ \E c \in C, s \in Sessions : KeytabAuthenticator_get_auth_handler(c, s)
    \/ \E c \in C, st \in T : process_exit(c, st)

\* Up to MaxCtors constructions, interleaved.
Next == NextFor(Ctors, Hostnames, KerberosUsernames, Passwords, Domains, Statuses)

Spec == Init /\ [][Next]_vars

\* One construction, alone in the process.
NextSolo == NextFor({1}, SoloHostnames, SoloUsernames, SoloPasswords, SoloDomains, Terminated)

SpecSolo == Init /\ [][NextSolo]_vars

\* ------------------------------------------------------------ vocabulary
Password(c) == self[c].cls = "kerberos" /\ "username" \in DOMAIN args[c]

Ambient(c) == self[c].cls = "kerberos" /\ "username" \notin DOMAIN args[c]

Keytab(c) == self[c].cls = "keytab"

Ended(c) == pc[c] \in {"returned", "raised"}

Failure == {"exit1", "signal", "notfound"}

NonZero == {"exit1", "signal"}

IsKlistCheck(p) == p.tool = <<"klist">> /\ p.args = << <<"-s">> >>

IsBareKinit(p) == p.tool = <<"kinit">> /\ p.args = <<>>

Range(f) == {f[i] : i \in DOMAIN f}

C2_AmbientDoubleFailureIsFatal ==
    \A c \in Ctors :
        ( /\ Ambient(c)
          /\ Len(procs[c]) = 2
          /\ pc[c] # "kinit_wait"
          /\ procs[c][1].exitstatus \in NonZero
          /\ procs[c][2].status \in Failure )
        => /\ pc[c] = "raised"
           /\ raised[c].type \in {"CalledProcessError", "OSError"}
           /\ handlers[c] = <<>>
           /\ \A s \in Sessions : ~ ENABLED KerberosAuthenticator_get_auth_handler(c, s)

C2_Witness ==
    \E c \in Ctors :
        /\ Ambient(c) /\ Len(procs[c]) = 2
        /\ procs[c][1].exitstatus = "exit1" /\ procs[c][2].exitstatus = "exit1"
        /\ pc[c] = "raised"

\* C3: every password construction spawns kinit with exactly one argument,
\* the principal username@domain, and the password is no process argument.
C3_SinglePrincipalArgument ==
    \A c \in Ctors : Password(c) /\ procs[c] # <<>> =>
        /\ procs[c][1].tool = <<"kinit">>
        /\ procs[c][1].args = << principal_of(args[c].username, args[c].domain) >>
        /\ args[c].password \notin Range(procs[c][1].args)

\* C4: when the kinit of a password construction ended with a non-zero exit
\* status that the construction collected, the construction raised an
\* exception whose message references the principal username@domain and
\* returned no strategy.
C4_NonZeroExitRaisesWithPrincipal ==
    \A c \in Ctors :
        Password(c) /\ procs[c] # <<>> /\ procs[c][1].exitstatus \in NonZero =>
            /\ pc[c] = "raised"
            /\ raised[c].type = "Exception"
            /\ principal_of(args[c].username, args[c].domain) \in Range(raised[c].msg.args)
            /\ handlers[c] = <<>>

C4_Witness ==
    \E c \in Ctors :
        /\ Password(c) /\ pc[c] = "raised" /\ procs[c] # <<>>
        /\ procs[c][1].exitstatus = "exit1"
        /\ procs[c][1].stdin # <<>>

\* C5: every construction that failed because a ticket tool it waited for
\* exited non-zero logged an error before raising, and for a password or
\* keytab construction that record names the principal.
ErrorRecords(c) == {r \in Range(log[c]) : r.level = "error"}

C5_FailureLoggedWithPrincipal ==
    \A c \in Ctors :
        ( /\ pc[c] = "raised"
          /\ procs[c] # <<>>
          /\ Current(c).exitstatus \in NonZero )
        => /\ ErrorRecords(c) # {}
           /\ (Password(c) \/ Keytab(c)) =>
                 \E r \in ErrorRecords(c) : Current(c).principal \in Range(r.msg.args)

\* C6: on os.name == 'nt' a Keytab construction raises the unsupported-
\* platform error with no external process invoked and KRB5CCNAME unwritten.
C6_KeytabOnWindowsRaisesFirst ==
    os_name = "nt" =>
        /\ environ = None
        /\ \A c \in Ctors : Keytab(c) =>
              /\ pc[c] = "raised"
              /\ raised[c] = Exc("Exception", Message("keytab is not supported on Windows!", <<>>))
              /\ procs[c] = <<>>
              /\ handlers[c] = <<>>

C6_Witness ==
    /\ os_name = "nt"
    /\ \E c \in Ctors : Keytab(c) /\ pc[c] = "raised"

\* C7: a step that hands out a handler of a strategy leaves the external
\* invocations, the environment, the caches and the strategy as they were;
\* the handler is a new instance, and all handlers of one strategy carry the
\* same parameters, those the strategy stored.
HandlerParams(h) == [f \in DOMAIN h \ {"id", "session"} |-> h[f]]

HandlerIds(hs) == {hs[i].id : i \in DOMAIN hs}

C7_GetAuthHandlerIsPure ==
    [][\A c \in Ctors : handlers'[c] # handlers[c] =>
          /\ UNCHANGED <<os_name, environ, ccache, pc, self, args, procs, log, raised>>
          /\ pc[c] = "returned"
          /\ Len(handlers'[c]) = Len(handlers[c]) + 1
          /\ SubSeq(handlers'[c], 1, Len(handlers[c])) = handlers[c]
          /\ Last(handlers'[c]).id \notin HandlerIds(handlers[c])
          /\ \A i \in DOMAIN handlers[c] :
                HandlerParams(handlers[c][i]) = HandlerParams(Last(handlers'[c]))
          /\ self[c].cls = "kerberos" =>
                Last(handlers'[c]).hostname_override = self[c].kerb_hostname
          /\ self[c].cls = "keytab" => Last(handlers'[c]).hostname_override = None
          /\ self[c].cls = "ntlm" =>
                /\ Last(handlers'[c]).username = self[c].domain \o <<"\\">> \o self[c].username
                /\ Last(handlers'[c]).password = self[c].password
    ]_vars

C7_Witness ==
    \E c \in Ctors :
        /\ Len(handlers[c]) = 2
        /\ handlers[c][1].id # handlers[c][2].id
        /\ procs[c] # <<>>

\* C8: a password or keytab strategy object exists only if the one kinit of
\* its construction ended with exit status 0, and a construction that raised
\* has no strategy to take a handler from; handlers only come from strategies
\* whose construction returned.
C8_StrategyOnlyAfterSuccessfulInit ==
    \A c \in Ctors :
        /\ pc[c] = "returned" /\ (Password(c) \/ Keytab(c)) =>
              /\ Len(procs[c]) = 1
              /\ procs[c][1].tool = <<"kinit">>
              /\ procs[c][1].status = "exit0"
              /\ procs[c][1].exitstatus = "exit0"
              /\ ccache[procs[c][1].ccname] # None
        /\ pc[c] = "raised" =>
              /\ raised[c] # NoException
              /\ handlers[c] = <<>>
        /\ handlers[c] # <<>> => pc[c] = "returned"

C8_Witness ==
    \E c, d \in Ctors :
        /\ Password(c) /\ pc[c] = "returned" /\ handlers[c] # <<>>
        /\ Keytab(d) /\ pc[d] = "raised" /\ procs[d] # <<>>
        /\ procs[d][1].exitstatus = "exit1"

\* C9: every Keytab construction that got past the platform check has set
\* KRB5CCNAME to the one fixed path <cwd>/credentials_cache, which stays set,
\* and points its kinit at that same file; the file holds one ticket, that
\* of a kinit that wrote to it.
PastSetenv(c) ==
    /\ Keytab(c)
    /\ \/ pc[c] \in {"keytab_kinit", "keytab_wait", "returned"}
       \/ pc[c] = "raised" /\ os_name # "nt"

\* The ticket a Keytab strategy's handler authenticates with: the handler
\* names no cache, so the Kerberos library reads the one KRB5CCNAME names.
HandlerTicket == ccache[InheritedCache]

C9_SharedCachePointer ==
    /\ environ \in {None, credentials_cache}
    /\ \A c \in Ctors : PastSetenv(c) =>
          /\ environ = credentials_cache
          /\ \A i \in DOMAIN procs[c] :
                /\ procs[c][i].ccname = environ
                /\ procs[c][i].args[2] = environ
    /\ \A path \in CachePaths :
          ccache[path] # None =>
             \E c \in Ctors : \E i \in DOMAIN procs[c] :
                /\ procs[c][i].tool = <<"kinit">>
                /\ procs[c][i].status = "exit0"
                /\ procs[c][i].ccname = path
                /\ procs[c][i].principal = ccache[path]

\* Two Keytab constructions for different principals both returned, and the
\* handler taken from the first is served the ticket of the second.
C9_Witness ==
    \E c, d \in Ctors :
        /\ Keytab(c) /\ Keytab(d)
        /\ pc[c] = "returned" /\ pc[d] = "returned"
        /\ procs[c][1].principal # procs[d][1].principal
        /\ handlers[c] # <<>>
        /\ HandlerTicket = procs[d][1].principal
        /\ HandlerTicket # procs[c][1].principal

\* C10 as stated: no construction ends, with a strategy or with an error,
\* while an external tool it started is still running.
C10_NeverEndsBeforeToolExits ==
    \A c \in Ctors : Ended(c) =>
        \A i \in DOMAIN procs[c] : procs[c][i].status # "running"

\* C10 as amended: an ambient or Keytab construction ends only after every
\* tool it started has exited and been waited for; a password construction
\* returns a strategy only after its kinit exited with status 0, and when it
\* ends without having collected kinit's exit status it raised the error of
\* the failed spawn, of the failed send of the password, or pexpect's TIMEOUT.
C10_BlocksExceptPexpectTimeout ==
    \A c \in Ctors : Ended(c) =>
        /\ (Ambient(c) \/ Keytab(c)) =>
              \A i \in DOMAIN procs[c] :
                 /\ procs[c][i].status # "running"
                 /\ procs[c][i].status \in Terminated => procs[c][i].exitstatus = procs[c][i].status
        /\ Password(c) =>
              /\ Len(procs[c]) = 1
              /\ pc[c] = "returned" => procs[c][1].exitstatus = "exit0"
              /\ procs[c][1].exitstatus = "unset" =>
                    /\ pc[c] = "raised"
                    /\ raised[c].type \in {"ExceptionPexpect", "AttributeError", "TIMEOUT"}
                    /\ raised[c].type = "ExceptionPexpect" <=> procs[c][1].status = "notfound"

C10_Witness ==
    \E c, d \in Ctors :
        /\ Password(c) /\ pc[c] = "raised" /\ raised[c].type = "TIMEOUT"
        /\ procs[c][1].status = "running"
        /\ Keytab(d) /\ pc[d] = "keytab_wait" /\ procs[d][1].status = "running"

====
